---------------------------- MODULE Spec2Model ----------------------------
(***************************************************************************)
(* Model of FileModel (src/src/filemodel.cpp, lines 1-336): the directory  *)
(* listing model of the file browser.  The model's own state is m_dir,     *)
(* m_files, m_errorMessage, m_active, m_dirty and the paths held by        *)
(* m_watcher.  The filesystem and the QSettings store are the environment. *)
(* Every handler is an operator from a model-state record to a model-state *)
(* record, composed as the code composes its calls; the record also        *)
(* carries the notifications emitted so far (ev) and the number of         *)
(* readDirectory() calls made (reloads).                                   *)
(***************************************************************************)
EXTENDS Integers, Sequences, FiniteSets, TLC

VARIABLES
    m_dir,            \* QString m_dir
    m_files,          \* QList<FileData> m_files
    m_errorMessage,   \* QString m_errorMessage
    m_active,         \* bool m_active
    m_dirty,          \* bool m_dirty
    watched,          \* the paths m_watcher monitors
    fsStatus,         \* environment: state of directory /a on disk
    fsEntries,        \* environment: the entries of directory /a on disk
    hiddenSetting,    \* environment: QSettings "show-hidden-files"
    dirsFirstSetting, \* environment: QSettings "show-dirs-first"
    lastOp,           \* history: the last step taken, its argument, the state before it
    emitted,          \* history: the notifications the last handler emitted
    reloads           \* history: readDirectory() calls made by the last handler

vars == <<m_dir, m_files, m_errorMessage, m_active, m_dirty, watched,
          fsStatus, fsEntries, hiddenSetting, dirsFirstSetting,
          lastOp, emitted, reloads>>

modelVars == <<m_dir, m_files, m_errorMessage, m_active, m_dirty, watched>>
envVars == <<fsStatus, fsEntries, hiddenSetting, dirsFirstSetting>>

----------------------------------------------------------------------------
(* Bounds of the environment.                                              *)

\* File names are 1..MaxName, in ascending name order; name 1 is a dot-file.
MaxName == 2

Names == 1..MaxName

\* The path strings setDir is called with: "/b/" is another spelling of "/b".
Paths == {"", "/a", "/b", "/b/"}

Resolve(path) == IF path = "/b/" THEN "/b" ELSE path

----------------------------------------------------------------------------
(* Entries: what QFileInfo reports of one directory entry.                 *)

isHidden(name) == name = 1

File(n, v) ==
    [fileName |-> n, size |-> v, permissions |-> 6, lastModified |-> v,
     isSymLink |-> FALSE, isDir |-> FALSE, symLinkTarget |-> 0, created |-> 0]

Dir(n) ==
    [fileName |-> n, size |-> 0, permissions |-> 7, lastModified |-> 0,
     isSymLink |-> FALSE, isDir |-> TRUE, symLinkTarget |-> 0, created |-> 0]

Link(n, t) ==
    [fileName |-> n, size |-> 0, permissions |-> 6, lastModified |-> 0,
     isSymLink |-> TRUE, isDir |-> FALSE, symLinkTarget |-> t, created |-> t]

\* What the entry named n can be on disk.  An odd name is a symlink with one
\* of two targets; an even name is a regular file, the same file after a
\* write, or a directory.
Variants(n) ==
    IF n % 2 = 1 THEN {Link(n, 1), Link(n, 2)}
    ELSE {File(n, 0), File(n, 1), Dir(n)}

\* Directory /b never changes its content.
OtherEntries == {File(2, 0)}

dirEntries(path) == IF Resolve(path) = "/a" THEN fsEntries ELSE OtherEntries

\* the state of a directory on disk; directory /b is always there and readable
dirStatus(path) == IF Resolve(path) = "/a" THEN fsStatus ELSE "ok"

\* QDir::exists()
dirExists(path) == dirStatus(path) # "missing"
\* access(path, R_OK) /= -1: fails on a missing directory as on an unreadable one
access(path) == dirStatus(path) = "ok"

ErrNotExist == "Folder does not exist"
ErrNoPermission == "No permission to read the folder"

----------------------------------------------------------------------------
(* QDir::entryInfoList under the filter and sorting the code sets.         *)

\* the order of QDir::Name alone, QDir::DirsFirst left out
entryLess_NameOnly(a, b, dirsFirst) == a.fileName < b.fileName

\* the order of two entries: QDir::Name | QDir::DirsFirst when show-dirs-first
\* is set, QDir's default (by name) otherwise
entryLess(a, b, dirsFirst) ==
    IF dirsFirst /\ a.isDir # b.isDir THEN a.isDir ELSE a.fileName < b.fileName

RECURSIVE sortEntries(_, _)
sortEntries(S, dirsFirst) ==
    IF S = {} THEN <<>>
    ELSE LET first == CHOOSE a \in S : \A b \in S \ {a} : entryLess(a, b, dirsFirst)
         IN <<first>> \o sortEntries(S \ {first}, dirsFirst)

\* a listing that leaves QDir::Hidden out whatever the setting says
entryInfoList_NeverHidden(path) ==
    sortEntries({e \in dirEntries(path) : ~isHidden(e.fileName)},
                dirsFirstSetting)

entryInfoList(path) ==
    sortEntries({e \in dirEntries(path) : hiddenSetting \/ ~isHidden(e.fileName)},
                dirsFirstSetting)


----------------------------------------------------------------------------
(* The model-state record the handlers work on.                            *)

Model ==
    [dir |-> m_dir, files |-> m_files, errorMessage |-> m_errorMessage,
     active |-> m_active, dirty |-> m_dirty, watched |-> watched,
     ev |-> <<>>, reloads |-> 0]

\* one notification, with the row it names (-1 when it names none) and the
\* count and error message an observer reads when it is delivered
emit(st, sig, row) ==
    [st EXCEPT !.ev = Append(@, [sig |-> sig, row |-> row,
                                 count |-> Len(st.files),
                                 error |-> st.errorMessage])]

\* QFileSystemWatcher::addPath: a path that does not exist is not added
addPath(st, path) ==
    IF dirExists(path) THEN [st EXCEPT !.watched = @ \cup {path}] ELSE st

\* QFileSystemWatcher::removePath
removePath(st, path) == [st EXCEPT !.watched = @ \ {path}]

\* QList::removeAt(i), i counted from 0
removeAt(files, i) ==
    SubSeq(files, 1, i) \o SubSeq(files, i + 2, Len(files))

\* QList::insert(i, data), i counted from 0: an index past the end appends
insertAt(files, i, data) ==
    LET p == IF i > Len(files) THEN Len(files) ELSE i
    IN SubSeq(files, 1, p) \o <<data>> \o SubSeq(files, p + 1, Len(files))

\* the equality test with the symlink target compared as well
filesContains_ComparesTarget(files, fileData) ==
    \E k \in 1..Len(files) :
        /\ files[k].fileName = fileData.fileName
        /\ files[k].size = fileData.size
        /\ files[k].permissions = fileData.permissions
        /\ files[k].lastModified = fileData.lastModified
        /\ files[k].isSymLink = fileData.isSymLink
        /\ files[k].isDir = fileData.isDir
        /\ files[k].symLinkTarget = fileData.symLinkTarget

\* FileModel::filesContains
filesContains(files, fileData) ==
    \E k \in 1..Len(files) :
        /\ files[k].fileName = fileData.fileName
        /\ files[k].size = fileData.size
        /\ files[k].permissions = fileData.permissions
        /\ files[k].lastModified = fileData.lastModified
        /\ files[k].isSymLink = fileData.isSymLink
        /\ files[k].isDir = fileData.isDir

\* readEntries with the listing appended before the readability check
readEntries_ListsBeforeCheck(st) ==
    IF ~dirExists(st.dir) THEN [st EXCEPT !.errorMessage = ErrNotExist]
    ELSE IF ~access(st.dir)
         THEN [st EXCEPT !.files = @ \o entryInfoList(st.dir),
                         !.errorMessage = ErrNoPermission]
    ELSE [st EXCEPT !.files = @ \o entryInfoList(st.dir)]

\* readEntries with the two checks in the other order
readEntries_AccessFirst(st) ==
    IF ~access(st.dir) THEN [st EXCEPT !.errorMessage = ErrNoPermission]
    ELSE IF ~dirExists(st.dir) THEN [st EXCEPT !.errorMessage = ErrNotExist]
    ELSE [st EXCEPT !.files = @ \o entryInfoList(st.dir)]

\* FileModel::readEntries
readEntries(st) ==
    IF ~dirExists(st.dir) THEN [st EXCEPT !.errorMessage = ErrNotExist]
    ELSE IF ~access(st.dir) THEN [st EXCEPT !.errorMessage = ErrNoPermission]
    ELSE [st EXCEPT !.files = @ \o entryInfoList(st.dir)]

\* readDirectory without the reset of m_errorMessage
readDirectory_KeepsError(st) ==
    LET s1 == emit(st, "beginResetModel", -1)
        s2 == [s1 EXCEPT !.files = <<>>]
        s3 == IF s2.dir # "" THEN readEntries(s2) ELSE s2
        s4 == emit(s3, "endResetModel", -1)
        s5 == emit(s4, "fileCountChanged", -1)
        s6 == emit(s5, "errorMessageChanged", -1)
    IN [s6 EXCEPT !.reloads = @ + 1]

\* readDirectory without m_files.clear(): the listing is appended to the
\* entries already there
readDirectory_KeepsFiles(st) ==
    LET s1 == emit(st, "beginResetModel", -1)
        s2 == [s1 EXCEPT !.errorMessage = ""]
        s3 == IF s2.dir # "" THEN readEntries(s2) ELSE s2
        s4 == emit(s3, "endResetModel", -1)
        s5 == emit(s4, "fileCountChanged", -1)
        s6 == emit(s5, "errorMessageChanged", -1)
    IN [s6 EXCEPT !.reloads = @ + 1]

\* FileModel::readDirectory
readDirectory(st) ==
    LET s1 == emit(st, "beginResetModel", -1)
        s2 == [s1 EXCEPT !.files = <<>>, !.errorMessage = ""]
        s3 == IF s2.dir # "" THEN readEntries(s2) ELSE s2
        s4 == emit(s3, "endResetModel", -1)
        s5 == emit(s4, "fileCountChanged", -1)
        s6 == emit(s5, "errorMessageChanged", -1)
    IN [s6 EXCEPT !.reloads = @ + 1]

\* clearModel without the emit of fileCountChanged
clearModel_Silent(st) ==
    LET s1 == emit(st, "beginResetModel", -1)
        s2 == [s1 EXCEPT !.files = <<>>]
    IN emit(s2, "endResetModel", -1)

\* FileModel::clearModel
clearModel(st) ==
    LET s1 == emit(st, "beginResetModel", -1)
        s2 == [s1 EXCEPT !.files = <<>>]
        s3 == emit(s2, "endResetModel", -1)
    IN emit(s3, "fileCountChanged", -1)

\* the removal loop stopping before row 0 (i > 0 for i >= 0)
RECURSIVE removePass_SkipsFirst(_, _, _)
removePass_SkipsFirst(st, newFiles, i) ==
    IF i < 1 THEN st
    ELSE IF ~filesContains(newFiles, st.files[i + 1])
         THEN LET s1 == emit(st, "beginRemoveRows", i)
                  s2 == [s1 EXCEPT !.files = removeAt(@, i)]
                  s3 == emit(s2, "endRemoveRows", i)
              IN removePass_SkipsFirst(s3, newFiles, i - 1)
         ELSE removePass_SkipsFirst(st, newFiles, i - 1)

\* the removal loop of refreshEntries, from index i down to 0
RECURSIVE removePass(_, _, _)
removePass(st, newFiles, i) ==
    IF i < 0 THEN st
    ELSE IF ~filesContains(newFiles, st.files[i + 1])
         THEN LET s1 == emit(st, "beginRemoveRows", i)
                  s2 == [s1 EXCEPT !.files = removeAt(@, i)]
                  s3 == emit(s2, "endRemoveRows", i)
              IN removePass(s3, newFiles, i - 1)
         ELSE removePass(st, newFiles, i - 1)

\* the insertion loop appending each new entry instead of inserting it at i
RECURSIVE insertPass_Appends(_, _, _)
insertPass_Appends(st, newFiles, i) ==
    IF i >= Len(newFiles) THEN st
    ELSE IF ~filesContains(st.files, newFiles[i + 1])
         THEN LET s1 == emit(st, "beginInsertRows", Len(st.files))
                  s2 == [s1 EXCEPT !.files = Append(@, newFiles[i + 1])]
                  s3 == emit(s2, "endInsertRows", Len(st.files))
              IN insertPass_Appends(s3, newFiles, i + 1)
         ELSE insertPass_Appends(st, newFiles, i + 1)

\* the insertion loop inserting each new entry after index i
RECURSIVE insertPass_AfterIndex(_, _, _)
insertPass_AfterIndex(st, newFiles, i) ==
    IF i >= Len(newFiles) THEN st
    ELSE IF ~filesContains(st.files, newFiles[i + 1])
         THEN LET s1 == emit(st, "beginInsertRows", i + 1)
                  s2 == [s1 EXCEPT !.files = insertAt(@, i + 1, newFiles[i + 1])]
                  s3 == emit(s2, "endInsertRows", i + 1)
              IN insertPass_AfterIndex(s3, newFiles, i + 1)
         ELSE insertPass_AfterIndex(st, newFiles, i + 1)

\* the insertion loop of refreshEntries, from index i up to the last candidate
RECURSIVE insertPass(_, _, _)
insertPass(st, newFiles, i) ==
    IF i >= Len(newFiles) THEN st
    ELSE IF ~filesContains(st.files, newFiles[i + 1])
         THEN LET s1 == emit(st, "beginInsertRows", i)
                  s2 == [s1 EXCEPT !.files = insertAt(@, i, newFiles[i + 1])]
                  s3 == emit(s2, "endInsertRows", i)
              IN insertPass(s3, newFiles, i + 1)
         ELSE insertPass(st, newFiles, i + 1)

\* refreshEntries with the two loops in the other order: new entries are
\* inserted before the vanished ones are removed
refreshEntries_InsertsFirst(st) ==
    LET s0 == [st EXCEPT !.errorMessage = ""]
    IN IF s0.dir = "" THEN emit(clearModel(s0), "errorMessageChanged", -1)
       ELSE IF ~dirExists(s0.dir)
            THEN emit([clearModel(s0) EXCEPT !.errorMessage = ErrNotExist],
                      "errorMessageChanged", -1)
       ELSE IF ~access(s0.dir)
            THEN emit([clearModel(s0) EXCEPT !.errorMessage = ErrNoPermission],
                      "errorMessageChanged", -1)
       ELSE LET newFiles == entryInfoList(s0.dir)
                oldFileCount == Len(s0.files)
                s1 == insertPass(s0, newFiles, 0)
                s2 == removePass(s1, newFiles, Len(s1.files) - 1)
                s3 == IF Len(s2.files) # oldFileCount
                      THEN emit(s2, "fileCountChanged", -1) ELSE s2
            IN emit(s3, "errorMessageChanged", -1)

\* FileModel::refreshEntries
refreshEntries(st) ==
    LET s0 == [st EXCEPT !.errorMessage = ""]
    IN IF s0.dir = "" THEN emit(clearModel(s0), "errorMessageChanged", -1)
       ELSE IF ~dirExists(s0.dir)
            THEN emit([clearModel(s0) EXCEPT !.errorMessage = ErrNotExist],
                      "errorMessageChanged", -1)
       ELSE IF ~access(s0.dir)
            THEN emit([clearModel(s0) EXCEPT !.errorMessage = ErrNoPermission],
                      "errorMessageChanged", -1)
       ELSE LET newFiles == entryInfoList(s0.dir)
                oldFileCount == Len(s0.files)
                s1 == removePass(s0, newFiles, Len(s0.files) - 1)
                s2 == insertPass(s1, newFiles, 0)
                s3 == IF Len(s2.files) # oldFileCount
                      THEN emit(s2, "fileCountChanged", -1) ELSE s2
            IN emit(s3, "errorMessageChanged", -1)

\* setDir without the early return on an unchanged path
setDir_NoEarlyReturn(st, dir) ==
    LET s1 == IF st.dir # "" THEN removePath(st, st.dir) ELSE st
        s2 == IF dir # "" THEN addPath(s1, dir) ELSE s1
        s3 == [s2 EXCEPT !.dir = dir]
        s4 == readDirectory(s3)
        s5 == [s4 EXCEPT !.dirty = FALSE]
    IN emit(s5, "dirChanged", -1)

\* setDir without the removePath of the old directory
setDir_KeepsOldWatch(st, dir) ==
    IF st.dir = dir THEN st
    ELSE LET s2 == IF dir # "" THEN addPath(st, dir) ELSE st
             s3 == [s2 EXCEPT !.dir = dir]
             s4 == readDirectory(s3)
             s5 == [s4 EXCEPT !.dirty = FALSE]
         IN emit(s5, "dirChanged", -1)

\* FileModel::setDir
setDir(st, dir) ==
    IF st.dir = dir THEN st
    ELSE LET s1 == IF st.dir # "" THEN removePath(st, st.dir) ELSE st
             s2 == IF dir # "" THEN addPath(s1, dir) ELSE s1
             s3 == [s2 EXCEPT !.dir = dir]
             s4 == readDirectory(s3)
             s5 == [s4 EXCEPT !.dirty = FALSE]
         IN emit(s5, "dirChanged", -1)

\* setActive clearing m_dirty without the reload
setActive_DropsReload(st, active) ==
    IF st.active = active THEN st
    ELSE LET s1 == [st EXCEPT !.active = active]
             s2 == emit(s1, "activeChanged", -1)
         IN [s2 EXCEPT !.dirty = FALSE]

\* setActive without the final m_dirty = false
setActive_KeepsDirty(st, active) ==
    IF st.active = active THEN st
    ELSE LET s1 == [st EXCEPT !.active = active]
             s2 == emit(s1, "activeChanged", -1)
         IN IF s2.dirty THEN readDirectory(s2) ELSE s2

\* setActive reloading on every change of m_active, dirty or not
setActive_AlwaysReloads(st, active) ==
    IF st.active = active THEN st
    ELSE LET s1 == [st EXCEPT !.active = active]
             s2 == emit(s1, "activeChanged", -1)
             s3 == readDirectory(s2)
         IN [s3 EXCEPT !.dirty = FALSE]

\* FileModel::setActive
setActive(st, active) ==
    IF st.active = active THEN st
    ELSE LET s1 == [st EXCEPT !.active = active]
             s2 == emit(s1, "activeChanged", -1)
             s3 == IF s2.dirty THEN readDirectory(s2) ELSE s2
         IN [s3 EXCEPT !.dirty = FALSE]

\* refresh reloading in full, as it did before refreshEntries was written
refresh_Reloads(st) ==
    IF ~st.active THEN [st EXCEPT !.dirty = TRUE]
    ELSE [readDirectory(st) EXCEPT !.dirty = FALSE]

\* refresh without the test of m_active
refresh_IgnoresActive(st) ==
    [refreshEntries(st) EXCEPT !.dirty = FALSE]

\* FileModel::refresh
refresh(st) ==
    IF ~st.active THEN [st EXCEPT !.dirty = TRUE]
    ELSE [refreshEntries(st) EXCEPT !.dirty = FALSE]

\* refreshFull reconciling instead of reloading in full
refreshFull_Reconciles(st) ==
    IF ~st.active THEN [st EXCEPT !.dirty = TRUE]
    ELSE [refreshEntries(st) EXCEPT !.dirty = FALSE]

\* FileModel::refreshFull
refreshFull(st) ==
    IF ~st.active THEN [st EXCEPT !.dirty = TRUE]
    ELSE [readDirectory(st) EXCEPT !.dirty = FALSE]

----------------------------------------------------------------------------
(* The state machine.                                                      *)

\* FileModel::FileModel, in an environment with directory /a readable and
\* empty and the settings at their defaults
Init ==
    /\ m_dir = ""
    /\ m_files = <<>>
    /\ m_errorMessage = ""
    /\ m_active = FALSE
    /\ m_dirty = FALSE
    /\ watched = {}
    /\ fsStatus = "ok"
    /\ fsEntries = {}
    /\ hiddenSetting = FALSE
    /\ dirsFirstSetting = FALSE
    /\ lastOp = [name |-> "init", dir |-> "", active |-> FALSE,
                 wasDir |-> "", wasError |-> "", wasDirty |-> FALSE,
                 wasCount |-> 0, wasOp |-> "env"]
    /\ emitted = <<>>
    /\ reloads = 0

\* the record of a step: its name and argument, what m_dir,
\* m_errorMessage, m_dirty and the row count were before it, and the
\* handler that ran immediately before a refresh() or refreshFull() when
\* that was one of these two
Step(name, dir, active) ==
    [name |-> name, dir |-> dir, active |-> active,
     wasDir |-> m_dir, wasError |-> m_errorMessage, wasDirty |-> m_dirty,
     wasCount |-> Len(m_files),
     wasOp |-> IF /\ name \in {"refresh", "refreshFull"}
                  /\ lastOp.name \in {"refresh", "refreshFull"}
               THEN lastOp.name ELSE "env"]

\* a handler ran to completion and left the model in state st
Commit(st, op) ==
    /\ m_dir' = st.dir
    /\ m_files' = st.files
    /\ m_errorMessage' = st.errorMessage
    /\ m_active' = st.active
    /\ m_dirty' = st.dirty
    /\ watched' = st.watched
    /\ emitted' = st.ev
    /\ reloads' = st.reloads
    /\ lastOp' = op
    /\ UNCHANGED envVars

SetDir ==
    \E dir \in Paths :
        Commit(setDir(Model, dir), Step("setDir", dir, FALSE))

SetActive ==
    \E active \in BOOLEAN :
        Commit(setActive(Model, active), Step("setActive", "", active))

Refresh ==
    Commit(refresh(Model), Step("refresh", "", FALSE))

RefreshFull ==
    Commit(refreshFull(Model), Step("refreshFull", "", FALSE))

\* a step of the environment: no handler runs and nothing is emitted
EnvStep ==
    /\ lastOp' = [name |-> "env", dir |-> "", active |-> FALSE,
                  wasDir |-> "", wasError |-> "", wasDirty |-> FALSE,
                  wasCount |-> 0, wasOp |-> "env"]
    /\ emitted' = <<>>
    /\ reloads' = 0
    /\ UNCHANGED modelVars

CreateEntry ==
    /\ fsStatus # "missing"
    /\ \E n \in Names : \E e \in Variants(n) :
          /\ \A f \in fsEntries : f.fileName # n
          /\ fsEntries' = fsEntries \cup {e}
    /\ UNCHANGED <<fsStatus, hiddenSetting, dirsFirstSetting>>
    /\ EnvStep

DeleteEntry ==
    /\ fsStatus # "missing"
    /\ \E f \in fsEntries : fsEntries' = fsEntries \ {f}
    /\ UNCHANGED <<fsStatus, hiddenSetting, dirsFirstSetting>>
    /\ EnvStep

\* an entry is modified, retargeted, or replaced by one of another kind
ChangeEntry ==
    /\ fsStatus # "missing"
    /\ \E f \in fsEntries : \E e \in Variants(f.fileName) \ {f} :
          fsEntries' = (fsEntries \ {f}) \cup {e}
    /\ UNCHANGED <<fsStatus, hiddenSetting, dirsFirstSetting>>
    /\ EnvStep

\* directory /a is removed (with its content), created, or changes permission
ChangeDir ==
    /\ \E s \in {"ok", "noperm", "missing"} \ {fsStatus} :
          /\ fsStatus' = s
          /\ fsEntries' = IF s = "missing" THEN {} ELSE fsEntries
    /\ UNCHANGED <<hiddenSetting, dirsFirstSetting>>
    /\ EnvStep

ToggleHidden ==
    /\ hiddenSetting' = ~hiddenSetting
    /\ UNCHANGED <<fsStatus, fsEntries, dirsFirstSetting>>
    /\ EnvStep

ToggleDirsFirst ==
    /\ dirsFirstSetting' = ~dirsFirstSetting
    /\ UNCHANGED <<fsStatus, fsEntries, hiddenSetting>>
    /\ EnvStep

Next ==
    \/ SetDir
    \/ SetActive
    \/ Refresh
    \/ RefreshFull
    \/ CreateEntry
    \/ DeleteEntry
    \/ ChangeEntry
    \/ ChangeDir
    \/ ToggleHidden
    \/ ToggleDirsFirst

Spec == Init /\ [][Next]_vars

----------------------------------------------------------------------------
(* Vocabulary of the properties.                                           *)

\* the directory named by path can be listed
listable(path) == path # "" /\ dirExists(path) /\ access(path)

\* how many notifications named sig are in ev
Count(ev, sig) == Cardinality({k \in 1..Len(ev) : ev[k].sig = sig})

\* the attributes of an entry that the equality test of reconciliation reads
core(e) ==
    [fileName |-> e.fileName, size |-> e.size, permissions |-> e.permissions,
     lastModified |-> e.lastModified, isSymLink |-> e.isSymLink, isDir |-> e.isDir]

coreSeq(files) == [k \in 1..Len(files) |-> core(files[k])]

\* files is in the order the sort setting dirsFirst prescribes
isOrdered(files, dirsFirst) ==
    \A j, k \in 1..Len(files) : j < k => entryLess(files[j], files[k], dirsFirst)

\* the entry sequence a full reload would produce now
reloaded == readDirectory(Model).files

RowSignals == {"beginRemoveRows", "endRemoveRows", "beginInsertRows", "endInsertRows"}
ResetSignals == {"beginResetModel", "endResetModel"}

----------------------------------------------------------------------------
(* C1 *)

\* C1, as claimed: after refresh() has run while active, the entry sequence
\* is exactly the sequence a full reload would produce at that moment,
\* whatever the prior listing and the settings.
C1_ReconcileEqualsReload ==
    (lastOp.name = "refresh" /\ m_active) => m_files = reloaded

\* C1, amended: when the prior listing is in the order the current
\* show-dirs-first setting prescribes, refresh() while active leaves the
\* entry sequence equal to the full reload's, entry for entry and in the same
\* order, in every attribute the equality test compares.
C1_ReconcileEqualsReloadWhenOrdered ==
    [][(lastOp'.name = "refresh" /\ m_active /\ isOrdered(m_files, dirsFirstSetting))
          => coreSeq(m_files') = coreSeq(reloaded)]_vars

\* a pass that removed one row and inserted one, and kept beside them an
\* entry whose symlink target on disk is no longer the recorded one
C1_Witness ==
    /\ lastOp.name = "refresh" /\ m_active
    /\ Count(emitted, "endRemoveRows") = 1
    /\ Count(emitted, "endInsertRows") = 1
    /\ Len(m_files) = 2
    /\ coreSeq(m_files) = coreSeq(reloaded)
    /\ m_files # reloaded

----------------------------------------------------------------------------
(* C2 *)

\* C2: in every reachable state, and in the state an observer reads at every
\* notification, a non-empty error message comes with an entry count of 0
\* (so a positive entry count comes with an empty error message).
C2_ErrorExclusivity ==
    /\ m_errorMessage # "" => Len(m_files) = 0
    /\ \A k \in 1..Len(emitted) : emitted[k].error # "" => emitted[k].count = 0

\* a change event met an unlistable directory while entries were listed
C2_Witness ==
    /\ lastOp.name = "refresh"
    /\ m_errorMessage # ""
    /\ Len(emitted) > 0
    /\ emitted[1].count > 0

----------------------------------------------------------------------------
(* C3 *)

\* C3, as claimed: refresh() while active never resets the model, on any path.
C3_RefreshNeverResets ==
    (lastOp.name = "refresh" /\ m_active)
        => \A k \in 1..Len(emitted) : emitted[k].sig \notin ResetSignals

\* C3, amended: refresh() while active never calls readDirectory; when the
\* directory can be listed it emits no model reset, only row-level
\* notifications and the count and error notifications; when the path is
\* empty or the directory is missing or unreadable it clears the listing with
\* exactly one model reset and emits no row-level notification.
C3_RefreshResetsOnlyOnError ==
    (lastOp.name = "refresh" /\ m_active) =>
        /\ reloads = 0
        /\ IF listable(m_dir)
           THEN \A k \in 1..Len(emitted) :
                    emitted[k].sig \in RowSignals \cup {"fileCountChanged", "errorMessageChanged"}
           ELSE /\ Count(emitted, "beginResetModel") = 1
                /\ Count(emitted, "endResetModel") = 1
                /\ \A k \in 1..Len(emitted) : emitted[k].sig \notin RowSignals

\* a pass over a listable directory that changed rows
C3_Witness ==
    /\ lastOp.name = "refresh" /\ m_active
    /\ listable(m_dir)
    /\ Count(emitted, "endRemoveRows") >= 1
    /\ Count(emitted, "endInsertRows") >= 1

----------------------------------------------------------------------------
(* C4 *)

\* C4: refresh() while inactive sets m_dirty and leaves the entry sequence,
\* the error message, the path, the active flag and the watched paths as they
\* were, and emits nothing.
C4_InactiveRefreshOnlySetsDirty ==
    [][(lastOp'.name = "refresh" /\ ~m_active)
          => /\ m_dirty'
             /\ UNCHANGED <<m_files, m_errorMessage, m_dir, m_active, watched>>
             /\ emitted' = <<>>
             /\ reloads' = 0]_vars

\* a change event deferred while the listing shown is out of date
C4_Witness ==
    /\ lastOp.name = "refresh" /\ ~m_active
    /\ m_dirty /\ ~lastOp.wasDirty
    /\ Len(m_files) > 0
    /\ m_files # reloaded

----------------------------------------------------------------------------
(* C5 *)

\* C5: once m_dirty is set, further change events while inactive change
\* nothing; setActive(true) then performs exactly one full reload and leaves
\* m_dirty false; and in every operation m_dirty goes from true to false only
\* with a full reload performed within that operation.
C5_DeferredReloadRunsOnce ==
    [][/\ (m_dirty /\ ~m_active /\ lastOp'.name \in {"refresh", "refreshFull"})
            => UNCHANGED modelVars
       /\ (m_dirty /\ lastOp'.name = "setActive" /\ lastOp'.active)
            => (reloads' = 1 /\ m_active' /\ ~m_dirty')
       /\ (m_dirty /\ ~m_dirty') => reloads' = 1]_vars

\* an activation that ran the deferred reload and listed entries
C5_Witness ==
    /\ lastOp.name = "setActive" /\ lastOp.active
    /\ lastOp.wasDirty
    /\ m_active /\ ~m_dirty
    /\ reloads = 1
    /\ Len(m_files) > 0

----------------------------------------------------------------------------
(* C6 *)

\* C6: a reconciliation pass over a listable directory emits one row removal
\* for each listed entry with no equal counterpart in the fresh listing, at
\* that entry's row, one row insertion for each fresh entry with no equal
\* counterpart in the prior listing, at that entry's row, and no other row
\* notification.
C6_OneNotificationPerDifference ==
    [][(lastOp'.name = "refresh" /\ m_active /\ listable(m_dir)) =>
          LET fresh == entryInfoList(m_dir)
              gone == {k \in 1..Len(m_files) :
                          \A j \in 1..Len(fresh) : core(fresh[j]) # core(m_files[k])}
              added == {j \in 1..Len(fresh) :
                          \A k \in 1..Len(m_files) : core(m_files[k]) # core(fresh[j])}
              rows(sig) == {emitted'[k].row : k \in {x \in 1..Len(emitted') : emitted'[x].sig = sig}}
          IN /\ Count(emitted', "beginRemoveRows") = Cardinality(gone)
             /\ Count(emitted', "endRemoveRows") = Cardinality(gone)
             /\ Count(emitted', "beginInsertRows") = Cardinality(added)
             /\ Count(emitted', "endInsertRows") = Cardinality(added)
             /\ rows("endRemoveRows") = {k - 1 : k \in gone}
             /\ rows("endInsertRows") = {j - 1 : j \in added}]_vars

\* one entry gone, one new, one equal on both sides: one removal, one
\* insertion, the error notification and nothing else
C6_Witness ==
    /\ lastOp.name = "refresh" /\ m_active /\ listable(m_dir)
    /\ Count(emitted, "endRemoveRows") = 1
    /\ Count(emitted, "endInsertRows") = 1
    /\ Len(emitted) = 5
    /\ Len(m_files) = 2

----------------------------------------------------------------------------
(* C7 *)

\* C7: setDir with the current path changes nothing of the model (entry
\* sequence, error message, path, flags, watched paths), runs no reload and
\* emits nothing.
C7_SetDirSamePathIsNoOp ==
    [][(lastOp'.name = "setDir" /\ lastOp'.dir = m_dir)
          => (UNCHANGED modelVars /\ emitted' = <<>> /\ reloads' = 0)]_vars

\* setDir with the current path while a reload is owed and the listing shown
\* is out of date
C7_Witness ==
    /\ lastOp.name = "setDir" /\ lastOp.dir = lastOp.wasDir
    /\ emitted = <<>>
    /\ m_dirty
    /\ Len(m_files) > 0
    /\ m_files # reloaded

----------------------------------------------------------------------------
(* C8 *)

\* C8: setDir with a new, non-empty path whose directory is missing or
\* unreadable completes with that path as the current path, no entries, the
\* error message of the first failing test (existence before permission),
\* m_dirty false, the active flag as it was, and dirChanged emitted last.
C8_SetDirSurfacesErrors ==
    [][(/\ lastOp'.name = "setDir"
        /\ lastOp'.dir # m_dir
        /\ lastOp'.dir # ""
        /\ dirStatus(lastOp'.dir) # "ok")
          => /\ m_dir' = lastOp'.dir
             /\ m_files' = <<>>
             /\ m_errorMessage' = IF dirStatus(lastOp'.dir) = "missing"
                                  THEN ErrNotExist ELSE ErrNoPermission
             /\ ~m_dirty'
             /\ m_active' = m_active
             /\ Count(emitted', "dirChanged") = 1
             /\ emitted'[Len(emitted')].sig = "dirChanged"]_vars

\* setDir to a missing directory, called while inactive with a reload owed
\* and entries listed
C8_Witness ==
    /\ lastOp.name = "setDir" /\ lastOp.wasDir # m_dir
    /\ lastOp.wasDirty /\ ~m_active
    /\ emitted[1].count > 0
    /\ m_errorMessage = ErrNotExist
    /\ m_files = <<>>

----------------------------------------------------------------------------
(* C9 *)

\* C9: the watcher holds no path but the current one, and none when the
\* current path is empty: at most one subscription.
C9_AtMostCurrentPathWatched ==
    /\ watched \subseteq {m_dir} \ {""}
    /\ Cardinality(watched) <= 1

\* a change from one watched directory to another
C9_Witness ==
    /\ lastOp.name = "setDir"
    /\ lastOp.wasDir \notin {"", m_dir}
    /\ Resolve(lastOp.wasDir) # Resolve(m_dir)
    /\ watched = {m_dir}

----------------------------------------------------------------------------
(* C10 *)

\* C10: from a state with an error recorded, a listing operation (setDir to
\* another path, activation with m_dirty set, refresh or refreshFull while
\* active) that finds the directory listable leaves the error message empty
\* and the listing equal to the directory's entries, and emits
\* errorMessageChanged.
C10_ErrorClearedByNextListing ==
    [][(/\ m_errorMessage # ""
        /\ \/ lastOp'.name = "setDir" /\ lastOp'.dir # m_dir
           \/ lastOp'.name = "setActive" /\ lastOp'.active # m_active /\ m_dirty
           \/ lastOp'.name \in {"refresh", "refreshFull"} /\ m_active
        /\ listable(m_dir'))
          => /\ m_errorMessage' = ""
             /\ m_files' = entryInfoList(m_dir')
             /\ Count(emitted', "errorMessageChanged") = 1]_vars

\* a change event while active that found the directory listable again
C10_Witness ==
    /\ lastOp.name = "refresh" /\ m_active
    /\ lastOp.wasError # ""
    /\ m_errorMessage = ""
    /\ Len(m_files) > 0

----------------------------------------------------------------------------
(* C11: every listing operation reads show-hidden-files afresh. After a    *)
(* full reload or a reconciliation of a listable directory, the hidden     *)
(* entries of the listing are the hidden entries of the directory when     *)
(* the setting is true and none when it is false, and the other entries    *)
(* of the listing are the other entries of the directory either way.       *)

\* the entries of a set whose name starts with a dot, or the others
hiddenOf(S) == {c \in S : isHidden(c.fileName)}
plainOf(S) == {c \in S : ~isHidden(c.fileName)}

C11_HiddenFollowsSetting ==
    (/\ (lastOp.name = "refresh" /\ m_active) \/ reloads > 0
     /\ listable(m_dir))
      => LET shown == {core(m_files[k]) : k \in 1..Len(m_files)}
             onDisk == {core(e) : e \in dirEntries(m_dir)}
         IN /\ hiddenOf(shown) = IF hiddenSetting THEN hiddenOf(onDisk) ELSE {}
            /\ plainOf(shown) = plainOf(onDisk)

\* a reconciliation under show-hidden-files that inserted one row, the
\* hidden entry, next to the entry already listed
C11_Witness ==
    /\ lastOp.name = "refresh" /\ m_active
    /\ hiddenSetting
    /\ Len(m_files) = 2
    /\ Len(emitted) = 4
    /\ emitted[1].sig = "beginInsertRows"
    /\ isHidden(m_files[emitted[1].row + 1].fileName)

----------------------------------------------------------------------------
(* C12: under show-dirs-first the listing keeps directories before         *)
(* non-directories with ascending names in each group. A full reload run   *)
(* with the setting true produces that order; a reconciliation run with    *)
(* the setting true on a listing in that order leaves it in that order,    *)
(* whatever was created, deleted or changed on disk; and a handler that    *)
(* runs no listing operation leaves the entry sequence alone. So the       *)
(* order holds after every listing operation as long as the setting was    *)
(* true at each of them since the path was set.                            *)

\* directories first, names ascending within each group
dirsFirstOrdered(files) ==
    \A j, k \in 1..Len(files) :
        j < k => \/ files[j].isDir /\ ~files[k].isDir
                 \/ /\ files[j].isDir = files[k].isDir
                    /\ files[j].fileName < files[k].fileName

C12_DirsFirstOrderKept ==
    [][/\ (/\ dirsFirstSetting
           /\ \/ reloads' > 0
              \/ /\ lastOp'.name = "refresh" /\ m_active
                 /\ dirsFirstOrdered(m_files))
            => dirsFirstOrdered(m_files')
       /\ (/\ lastOp'.name \in {"setDir", "setActive", "refresh", "refreshFull"}
           /\ reloads' = 0
           /\ ~(lastOp'.name = "refresh" /\ m_active))
            => m_files' = m_files]_vars

\* a reconciliation under show-dirs-first after the second of two files
\* became a directory: its row was removed and the directory inserted in
\* front of the remaining file, whose name is smaller
C12_Witness ==
    /\ lastOp.name = "refresh" /\ m_active
    /\ dirsFirstSetting
    /\ lastOp.wasCount = 2
    /\ Len(m_files) = 2
    /\ m_files[1].isDir /\ ~m_files[2].isDir
    /\ m_files[1].fileName > m_files[2].fileName
    /\ Len(emitted) = 5
    /\ emitted[1].sig = "beginRemoveRows" /\ emitted[1].row = 1
    /\ emitted[3].sig = "beginInsertRows" /\ emitted[3].row = 0

----------------------------------------------------------------------------
(* C13: a full reload is idempotent. When a handler that ran readDirectory *)
(* is followed, with no step of the environment in between, by a handler   *)
(* that runs readDirectory on the same directory, the second run leaves    *)
(* the entry sequence, the error message and the row count as the first    *)
(* left them, and every notification of the second run is delivered with   *)
(* that same row count.                                                    *)
C13_ReloadIdempotent ==
    [][(/\ reloads > 0
        /\ reloads' > 0
        /\ Resolve(m_dir') = Resolve(m_dir))
          => /\ m_files' = m_files
             /\ m_errorMessage' = m_errorMessage
             /\ Len(m_files') = Len(m_files)
             /\ \A k \in 1..Len(emitted') : emitted'[k].count = Len(m_files)]_vars

\* refreshFull() ran twice in a row on an active model listing two entries
C13_Witness ==
    /\ lastOp.name = "refreshFull" /\ lastOp.wasOp = "refreshFull"
    /\ m_active
    /\ reloads = 1
    /\ lastOp.wasCount = 2
    /\ Len(m_files) = 2

----------------------------------------------------------------------------
(* C14: in every state between handlers, a dirty model is inactive:        *)
(* m_dirty implies not m_active.                                           *)
C14_DirtyImpliesInactive == m_dirty => ~m_active

\* a settings change reached an inactive model that lists entries and
\* marked it dirty
C14_Witness ==
    /\ lastOp.name = "refreshFull"
    /\ m_dirty /\ ~m_active
    /\ Len(m_files) > 0

----------------------------------------------------------------------------
(* C15: within one reconciliation pass every row removal precedes every    *)
(* row insertion, the removal indices are strictly decreasing, the         *)
(* insertion indices are strictly increasing, and each removal index is a  *)
(* valid row of the sequence at the moment of that removal.                *)
C15_RemovalsThenInsertions ==
    (lastOp.name = "refresh" /\ m_active)
      => /\ \A j, k \in 1..Len(emitted) :
               j < k =>
                 /\ emitted[j].sig \in {"beginInsertRows", "endInsertRows"}
                      => emitted[k].sig \notin {"beginRemoveRows", "endRemoveRows"}
                 /\ (emitted[j].sig = "beginRemoveRows" /\ emitted[k].sig = "beginRemoveRows")
                      => emitted[k].row < emitted[j].row
                 /\ (emitted[j].sig = "beginInsertRows" /\ emitted[k].sig = "beginInsertRows")
                      => emitted[k].row > emitted[j].row
         /\ \A k \in 1..Len(emitted) :
               emitted[k].sig = "beginRemoveRows"
                 => emitted[k].row >= 0 /\ emitted[k].row < emitted[k].count

\* a pass that removed two rows and then inserted one
C15_Witness ==
    /\ lastOp.name = "refresh" /\ m_active
    /\ Count(emitted, "endRemoveRows") = 2
    /\ Count(emitted, "endInsertRows") = 1

----------------------------------------------------------------------------
(* C16, as stated: a reconciliation pass (refresh() while active) emits    *)
(* fileCountChanged if and only if the row count after the pass differs    *)
(* from the count before it, and emits errorMessageChanged exactly once,   *)
(* on every path. This fails on the paths that call clearModel(): a pass   *)
(* over an empty listing whose path is empty, missing or unreadable emits  *)
(* fileCountChanged although the count stays 0.                            *)
C16_CountChangedIffCountDiffers ==
    (lastOp.name = "refresh" /\ m_active)
      => /\ Count(emitted, "fileCountChanged") > 0 <=> Len(m_files) # lastOp.wasCount
         /\ Count(emitted, "errorMessageChanged") = 1

(* C16, amended: a reconciliation pass emits errorMessageChanged exactly   *)
(* once, as its last notification, on every path. When the directory is    *)
(* listable it emits fileCountChanged once if the row count after the pass *)
(* differs from the count before it and not at all otherwise; when the     *)
(* path is empty, missing or unreadable it emits fileCountChanged exactly  *)
(* once whether or not the count changed.                                  *)
C16_CountChangedOnDiffOrClear ==
    (lastOp.name = "refresh" /\ m_active)
      => /\ Count(emitted, "errorMessageChanged") = 1
         /\ emitted[Len(emitted)].sig = "errorMessageChanged"
         /\ Count(emitted, "fileCountChanged") =
               IF listable(m_dir)
               THEN IF Len(m_files) # lastOp.wasCount THEN 1 ELSE 0
               ELSE 1

\* a pass over a listable directory that inserted one row and reported the
\* new count
C16_Witness ==
    /\ lastOp.name = "refresh" /\ m_active
    /\ listable(m_dir)
    /\ Len(m_files) = lastOp.wasCount + 1
    /\ Count(emitted, "fileCountChanged") = 1
    /\ Count(emitted, "errorMessageChanged") = 1

----------------------------------------------------------------------------
(* C17: an entry whose counterpart on disk differs from it only in symlink *)
(* target or creation time is unchanged for reconciliation. A pass over a  *)
(* listable directory that lists such a counterpart emits no removal for   *)
(* the entry's row and no insertion at the counterpart's index, and the    *)
(* listing keeps the old record and does not take the new one.             *)
C17_RetargetedEntryIsKept ==
    [][(lastOp'.name = "refresh" /\ m_active /\ listable(m_dir))
          => \A k \in 1..Len(m_files) :
                \A j \in 1..Len(entryInfoList(m_dir)) :
                   LET old == m_files[k]
                       new == entryInfoList(m_dir)[j]
                   IN (core(new) = core(old) /\ new # old)
                        => /\ \E n \in 1..Len(m_files') : m_files'[n] = old
                           /\ \A n \in 1..Len(m_files') : m_files'[n] # new
                           /\ \A n \in 1..Len(emitted') :
                                 /\ emitted'[n].sig = "beginRemoveRows"
                                      => emitted'[n].row # k - 1
                                 /\ emitted'[n].sig = "beginInsertRows"
                                      => emitted'[n].row # j - 1]_vars

\* a pass that changed nothing although the directory holds a link whose
\* target is not the one the listing records
C17_Witness ==
    /\ lastOp.name = "refresh" /\ m_active
    /\ listable(m_dir)
    /\ Len(emitted) = 1
    /\ \E k \in 1..Len(m_files) : \E j \in 1..Len(entryInfoList(m_dir)) :
          /\ m_files[k].isSymLink
          /\ core(entryInfoList(m_dir)[j]) = core(m_files[k])
          /\ entryInfoList(m_dir)[j].symLinkTarget # m_files[k].symLinkTarget

----------------------------------------------------------------------------
----------------------------------------------------------------------------
(* C19: setActive(false) on an active model never reloads. It emits        *)
(* activeChanged and nothing else, makes the model inactive, and leaves    *)
(* the entry sequence, the error message, the path and the watch alone;    *)
(* m_dirty is false before the call and false after it.                    *)
C19_DeactivateNeverReloads ==
    [][(m_active /\ lastOp'.name = "setActive" /\ ~lastOp'.active)
          => /\ reloads' = 0
             /\ Len(emitted') = 1
             /\ emitted'[1].sig = "activeChanged"
             /\ ~m_active'
             /\ ~m_dirty /\ ~m_dirty'
             /\ UNCHANGED <<m_files, m_errorMessage, m_dir, watched>>]_vars

\* a model was deactivated while its listing was out of date and kept it
C19_Witness ==
    /\ lastOp.name = "setActive" /\ ~lastOp.active
    /\ ~m_active
    /\ Len(emitted) = 1
    /\ Len(m_files) > 0
    /\ coreSeq(m_files) # coreSeq(reloaded)

----------------------------------------------------------------------------
(* C20: refreshFull() for a settings broadcast and refresh() for a change  *)
(* notification run one after the other, in either order, with whatever    *)
(* changes of the settings and of the directory are pending. On an active  *)
(* model the entry sequence after the second handler is the listing of the *)
(* directory under the settings in force (empty when the directory cannot  *)
(* be listed). On an inactive model each of the two handlers leaves the    *)
(* listing alone, emits nothing and sets m_dirty, and the setActive(true)  *)
(* that finds m_dirty set produces that listing and clears m_dirty.        *)

\* what a listing of the current directory under the current settings is
freshListing == IF listable(m_dir) THEN entryInfoList(m_dir) ELSE <<>>

C20_BothHandlersEitherOrder ==
    [][/\ (/\ m_active
           /\ \/ lastOp.name = "refreshFull" /\ lastOp'.name = "refresh"
              \/ lastOp.name = "refresh" /\ lastOp'.name = "refreshFull")
            => /\ m_files' = freshListing
               /\ ~m_dirty'
       /\ (~m_active /\ lastOp'.name \in {"refresh", "refreshFull"})
            => /\ m_files' = m_files
               /\ m_dirty'
               /\ emitted' = <<>>
               /\ reloads' = 0
       /\ (~m_active /\ m_dirty /\ lastOp'.name = "setActive" /\ lastOp'.active)
            => /\ m_files' = freshListing
               /\ m_active' /\ ~m_dirty']_vars

\* refresh() and then refreshFull() ran on an active model, and the listing
\* shows the hidden link after the directory, as both settings now ask
C20_Witness ==
    /\ lastOp.name = "refreshFull" /\ lastOp.wasOp = "refresh"
    /\ m_active
    /\ hiddenSetting /\ dirsFirstSetting
    /\ Len(m_files) = 2
    /\ m_files[1].isDir
    /\ isHidden(m_files[2].fileName)

============================================================================
